---- MODULE Spec2Model ----
(***************************************************************************)
(* A model of monitor.py: one run of main() fetches the inventory of the   *)
(* configured pages, compares it with the snapshot in last_stock.json,     *)
(* rewrites the snapshot and sends at most one Telegram message.           *)
(*                                                                         *)
(* Strings are sequences of one-character strings.  The CJK characters of  *)
(* the source are written with capital ASCII letters (SANY reads ASCII     *)
(* only); Ord gives each stand-in the code point of the character it       *)
(* stands for, so that sorted() orders names as Python does:               *)
(*   ZGRQ  = U+4E2D U+56FD U+4EBA U+59BB     JBNU = U+65E5 U+672C U+5973   *)
(*   U+4F18   PYT = U+907F U+5B55 U+5957     PYM  = U+907F U+5B55 U+836F   *)
(*   SHA   = U+8D5E U+52A9 U+5546    WDEKI = U+6CE2 U+591A U+91CE U+7ED3   *)
(*   U+8863                                                                *)
(***************************************************************************)
EXTENDS Integers, Sequences, FiniteSets, TLC

VARIABLES
    file,          \* last_stock.json: [exists, text], text a sequence of JSON tokens
    pc,            \* position of the run inside main()
    onlyOnChange,  \* ONLY_ON_CHANGE of the running process
    nUrls,         \* len(urls) in fetch_stock
    urlIdx,        \* number of urls fetch_stock has already merged
    total,         \* fetch_stock's running dict
    current,       \* main's current
    last,          \* main's last: None or the loaded dict
    changes,       \* main's changes
    msg,           \* main's msg
    sent,          \* the calls of send_tg_message in this run: [text, ok]
    outcome,       \* how main() ended: "running", "returned", "raised"
    error,         \* the exception that left main(), "" if none
    saves,         \* history: the calls of save_stock in this run
    fileAtStart,   \* history: the file when the run started
    fileAtInit,    \* history: the file before the first run
    lastGood,      \* history: inventory of the latest run that fetched >= 1 entry
    lost,          \* history: inventory of the first run that found changes and raised
    call,          \* a function called on its own: [fn, ...] with its arguments
    ret            \* the values the calls of `call' have returned so far

vars == <<file, pc, onlyOnChange, nUrls, urlIdx, total, current, last, changes,
          msg, sent, outcome, error, saves, fileAtStart, fileAtInit, lastGood,
          lost, call, ret>>

----------------------------------------------------------------------------
(* Bounds of the model *)

MaxCount == 1        \* stock counts range over 0..MaxCount
MaxUrls == 2         \* TARGET_URL lists 0..MaxUrls urls
MaxCookieLen == 4    \* COOKIE has 0..MaxCookieLen characters

(* Product names of the pages: one that matches the category PYT and has a *)
(* region part, one that matches no category.                              *)
NameA == <<"P", "Y", "T", "-", "x", "-", "1">>
NameB == <<"x">>
Names == {NameA, NameB}
Counts == 0..MaxCount

----------------------------------------------------------------------------
(* Python values *)

\* code points, for the order of str
Ord ==
    [c \in {"-", "1", "x", "Z", "G", "R", "Q", "J", "B", "N", "U", "P", "Y", "T",
            "M", "S", "H", "A", "W", "D", "E", "K", "I"} |->
        CASE c = "-" -> 45 [] c = "1" -> 49 [] c = "x" -> 120
          [] c = "Z" -> 20013 [] c = "G" -> 22269 [] c = "R" -> 20154
          [] c = "Q" -> 22971 [] c = "J" -> 26085 [] c = "B" -> 26412
          [] c = "N" -> 22899 [] c = "U" -> 20248 [] c = "P" -> 36991
          [] c = "Y" -> 23381 [] c = "T" -> 22871 [] c = "M" -> 33647
          [] c = "S" -> 36190 [] c = "H" -> 21161 [] c = "A" -> 21830
          [] c = "W" -> 27874 [] c = "D" -> 22810 [] c = "E" -> 37326
          [] c = "K" -> 32467 [] c = "I" -> 34915]

\* a < b for two str
RECURSIVE StrLess(_, _)
StrLess(a, b) ==
    IF b = <<>> THEN FALSE
    ELSE IF a = <<>> THEN TRUE
    ELSE IF Ord[Head(a)] # Ord[Head(b)] THEN Ord[Head(a)] < Ord[Head(b)]
    ELSE StrLess(Tail(a), Tail(b))

\* sorted(S) for a set of str
RECURSIVE SortedNames(_)
SortedNames(S) ==
    IF S = {} THEN <<>>
    ELSE LET m == CHOOSE x \in S : \A y \in S \ {x} : StrLess(x, y)
         IN  <<m>> \o SortedNames(S \ {m})

\* the sequences over S of length 0..n
RECURSIVE SeqsUpTo(_, _)
SeqsUpTo(S, n) ==
    IF n = 0 THEN {<<>>}
    ELSE SeqsUpTo(S, n - 1) \cup
         {Append(q, x) : q \in {r \in SeqsUpTo(S, n - 1) : Len(r) = n - 1}, x \in S}

\* None, and an int where None may stand
None == [isNone |-> TRUE, v |-> 0]
IntVal(n) == [isNone |-> FALSE, v |-> n]

(* A dict is the sequence of its items [k, v] in insertion order, no key   *)
(* twice.                                                                  *)
EmptyDict == <<>>
Keys(d) == {d[i].k : i \in 1..Len(d)}

\* d.get(k)
Get(d, k) ==
    IF k \in Keys(d)
    THEN IntVal(d[CHOOSE i \in 1..Len(d) : d[i].k = k].v)
    ELSE None

\* d[k] = v: a key already there keeps its place
SetItem(d, k, v) ==
    IF k \in Keys(d)
    THEN [i \in 1..Len(d) |-> IF d[i].k = k THEN [k |-> k, v |-> v] ELSE d[i]]
    ELSE Append(d, [k |-> k, v |-> v])

\* variant: a key already there keeps its value, d.setdefault(k, v)
RECURSIVE Update_KeepsEarlier(_, _)
Update_KeepsEarlier(d, part) ==
    IF part = <<>> THEN d
    ELSE Update_KeepsEarlier(
             IF Head(part).k \in Keys(d) THEN d
             ELSE Append(d, [k |-> Head(part).k, v |-> Head(part).v]),
             Tail(part))

\* d.update(part)
RECURSIVE Update(_, _)
Update(d, part) ==
    IF part = <<>> THEN d
    ELSE Update(SetItem(d, Head(part).k, Head(part).v), Tail(part))

\* d1 == d2 for two dicts: the same items, in any order
DictEq(d1, d2) ==
    /\ Keys(d1) = Keys(d2)
    /\ \A k \in Keys(d1) : Get(d1, k) = Get(d2, k)

\* every dict over Names and Counts
RECURSIVE DictsOfLen(_)
DictsOfLen(n) ==
    IF n = 0 THEN {<<>>}
    ELSE UNION {{Append(d, [k |-> k, v |-> v]) : k \in Names \ Keys(d), v \in Counts} :
                  d \in DictsOfLen(n - 1)}

Dicts == UNION {DictsOfLen(n) : n \in 0..Cardinality(Names)}

----------------------------------------------------------------------------
(* parse_cookies(cookie_str) *)

\* s.split(sep) for a one-character sep: cur is the part being read
RECURSIVE SplitOn(_, _, _)
SplitOn(s, sep, cur) ==
    IF s = <<>> THEN <<cur>>
    ELSE IF Head(s) = sep THEN <<cur>> \o SplitOn(Tail(s), sep, <<>>)
    ELSE SplitOn(Tail(s), sep, Append(cur, Head(s)))

\* s.lstrip(), s.rstrip(), s.strip(): the blank is the white space of the model
RECURSIVE LStrip(_)
LStrip(s) == IF s # <<>> /\ Head(s) = " " THEN LStrip(Tail(s)) ELSE s
RECURSIVE RStrip(_)
RStrip(s) ==
    IF s # <<>> /\ s[Len(s)] = " " THEN RStrip(SubSeq(s, 1, Len(s) - 1)) ELSE s
Strip(s) == RStrip(LStrip(s))

\* c in s, for a character c
HasChar(s, c) == \E i \in 1..Len(s) : s[i] = c
\* s.index(c), from 1
IndexOf(s, c) == CHOOSE i \in 1..Len(s) : s[i] = c /\ \A j \in 1..(i - 1) : s[j] # c
\* s.rindex(c), from 1
RIndexOf(s, c) == CHOOSE i \in 1..Len(s) : s[i] = c /\ \A j \in (i + 1)..Len(s) : s[j] # c

\* variant: the part is split at its last "=", part.rsplit("=", 1)
parse_part_SplitsAtLast(cookies, rawpart) ==
    LET part == Strip(rawpart)
    IN  IF part = <<>> THEN cookies
        ELSE IF HasChar(part, "=")
        THEN LET i == RIndexOf(part, "=")
             IN  SetItem(cookies, Strip(SubSeq(part, 1, i - 1)),
                         Strip(SubSeq(part, i + 1, Len(part))))
        ELSE cookies

\* the body of the loop: cookies after one part
parse_part(cookies, rawpart) ==
    LET part == Strip(rawpart)
    IN  IF part = <<>> THEN cookies
        ELSE IF HasChar(part, "=")
        THEN LET i == IndexOf(part, "=")
             IN  SetItem(cookies, Strip(SubSeq(part, 1, i - 1)),
                         Strip(SubSeq(part, i + 1, Len(part))))
        ELSE cookies

RECURSIVE parse_parts(_, _)
parse_parts(cookies, parts) ==
    IF parts = <<>> THEN cookies
    ELSE parse_parts(parse_part(cookies, Head(parts)), Tail(parts))

parse_cookies(cookie_str) == parse_parts(EmptyDict, SplitOn(cookie_str, ";", <<>>))

----------------------------------------------------------------------------
(* last_stock.json.  The text of the file is a sequence of JSON tokens.    *)

Tok(t) == [t |-> t, s |-> <<>>, n |-> 0]
TokStr(s) == [t |-> "str", s |-> s, n |-> 0]
TokNum(n) == [t |-> "num", s |-> <<>>, n |-> n]

\* variant: the members are written without the commas between them
RECURSIVE json_members_NoCommas(_)
json_members_NoCommas(d) ==
    IF d = <<>> THEN <<>>
    ELSE <<TokStr(Head(d).k), Tok(":"), TokNum(Head(d).v)>>
         \o json_members_NoCommas(Tail(d))

\* the items of a dict as JSON members, separated by commas
RECURSIVE json_members(_)
json_members(d) ==
    IF d = <<>> THEN <<>>
    ELSE <<TokStr(Head(d).k), Tok(":"), TokNum(Head(d).v)>>
         \o (IF Tail(d) = <<>> THEN <<>> ELSE <<Tok(",")>> \o json_members(Tail(d)))

\* json.dump(stock_dict, f, ensure_ascii=False, indent=2)
json_dump(d) == <<Tok("{")>> \o json_members(d) \o <<Tok("}")>>

(* json.load: the members after the opening brace, read into acc; a        *)
(* repeated key takes the later value.  [ok, d]: ok is FALSE when the text *)
(* is no JSON object (json.load raises).                                   *)
RECURSIVE json_parse_members(_, _)
json_parse_members(toks, acc) ==
    IF Len(toks) < 4 THEN [ok |-> FALSE, d |-> <<>>]
    ELSE IF ~(toks[1].t = "str" /\ toks[2].t = ":" /\ toks[3].t = "num")
    THEN [ok |-> FALSE, d |-> <<>>]
    ELSE LET acc2 == SetItem(acc, toks[1].s, toks[3].n)
             rest == SubSeq(toks, 5, Len(toks))
         IN  IF toks[4].t = "}"
             THEN [ok |-> rest = <<>>, d |-> IF rest = <<>> THEN acc2 ELSE <<>>]
             ELSE IF toks[4].t = ","
             THEN json_parse_members(rest, acc2)
             ELSE [ok |-> FALSE, d |-> <<>>]

json_load(toks) ==
    IF Len(toks) < 2 \/ toks[1].t # "{" THEN [ok |-> FALSE, d |-> <<>>]
    ELSE IF toks[2].t = "}" THEN [ok |-> Len(toks) = 2, d |-> <<>>]
    ELSE json_parse_members(Tail(toks), <<>>)

NoFile == [exists |-> FALSE, text |-> <<>>]
\* a file cut short: text json.load rejects
TruncatedFile == [exists |-> TRUE, text |-> <<Tok("{"), TokStr(NameA), Tok(":")>>]

\* load_last_stock(): None or the dict of the file
NoDict == [isNone |-> TRUE, d |-> <<>>]
SomeDict(d) == [isNone |-> FALSE, d |-> d]

load_last_stock(f) ==
    IF ~f.exists THEN NoDict
    ELSE LET r == json_load(f.text)
         IN  IF r.ok THEN SomeDict(r.d) ELSE NoDict

\* save_stock(stock_dict): the file after the call
save_stock(stock_dict) == [exists |-> TRUE, text |-> json_dump(stock_dict)]

----------------------------------------------------------------------------
(* diff_stock(old, new): the dict of changes, as items [k, old, new] in    *)
(* the order of sorted(all_keys).                                          *)

\* variant: a missing key is read as the count 0, old.get(k, 0)
RECURSIVE diff_keys_MissingAsZero(_, _, _)
diff_keys_MissingAsZero(all_keys, old, new) ==
    IF all_keys = <<>> THEN <<>>
    ELSE LET k == Head(all_keys)
             o == IF k \in Keys(old) THEN Get(old, k) ELSE IntVal(0)
             n == IF k \in Keys(new) THEN Get(new, k) ELSE IntVal(0)
         IN  (IF o # n THEN <<[k |-> k, old |-> o, new |-> n]>> ELSE <<>>)
             \o diff_keys_MissingAsZero(Tail(all_keys), old, new)

RECURSIVE diff_keys(_, _, _)
diff_keys(all_keys, old, new) ==
    IF all_keys = <<>> THEN <<>>
    ELSE LET k == Head(all_keys)
             o == Get(old, k)
             n == Get(new, k)
         IN  (IF o # n THEN <<[k |-> k, old |-> o, new |-> n]>> ELSE <<>>)
             \o diff_keys(Tail(all_keys), old, new)

\* variant: only the keys of old are compared
diff_stock_OldKeysOnly(old, new) == diff_keys(SortedNames(Keys(old)), old, new)

\* variant: the dicts are compared as written; on any difference, of order too,
\* every key is reported
diff_stock_OrderSensitive(old, new) ==
    IF old = new THEN <<>>
    ELSE LET all_keys == SortedNames(Keys(old) \cup Keys(new))
         IN  [i \in 1..Len(all_keys) |->
                [k |-> all_keys[i], old |-> Get(old, all_keys[i]),
                 new |-> Get(new, all_keys[i])]]

diff_stock(old, new) == diff_keys(SortedNames(Keys(old) \cup Keys(new)), old, new)

----------------------------------------------------------------------------
(* Messages.  A text is the sequence of its lines; a line is a record that *)
(* keeps what the f-string prints: [t, name, old, new, arrow, regions].    *)
(* The time stamp and the text of the caught exception are left out.       *)

MODE == <<"r", "e", "a", "l", "t", "i", "m", "e">>

Line(t, name, old, new, arrow, regions) ==
    [t |-> t, name |-> name, old |-> old, new |-> new, arrow |-> arrow,
     regions |-> regions]
PlainLine(t) == Line(t, <<>>, None, None, "", <<>>)

product_types ==
    << <<"Z", "G", "R", "Q">>, <<"J", "B", "N", "U">>, <<"P", "Y", "T">>,
       <<"P", "Y", "M">>, <<"S", "H", "A">>, <<"W", "D", "E", "K", "I">> >>

\* sub in s, for two str
Contains(s, sub) ==
    \E i \in 0..(Len(s) - Len(sub)) : SubSeq(s, i + 1, i + Len(sub)) = sub

\* s.split("-"): cur is the part being read
RECURSIVE SplitDash(_, _)
SplitDash(s, cur) ==
    IF s = <<>> THEN <<cur>>
    ELSE IF Head(s) = "-" THEN <<cur>> \o SplitDash(Tail(s), <<>>)
    ELSE SplitDash(Tail(s), Append(cur, Head(s)))

\* part.isalnum(): not empty, and no character of it is the dash
IsAlnum(part) == part # <<>> /\ \A i \in 1..Len(part) : part[i] # "-"

RECURSIVE FilterAlnum(_)
FilterAlnum(parts) ==
    IF parts = <<>> THEN <<>>
    ELSE (IF IsAlnum(Head(parts)) THEN <<Head(parts)>> ELSE <<>>)
         \o FilterAlnum(Tail(parts))

\* the regions of a name: the alphanumeric parts of name.split("-")[2:]
Regions(name) ==
    LET parts == SplitDash(name, <<>>)
    IN  FilterAlnum(SubSeq(parts, 3, Len(parts)))

\* the lines of one product type: the items of stock_dict whose name has it
RECURSIVE TypeLines(_, _)
TypeLines(product_type, items) ==
    IF items = <<>> THEN <<>>
    ELSE (IF Contains(Head(items).k, product_type)
          THEN <<Line("item", Head(items).k, None, IntVal(Head(items).v), "",
                      Regions(Head(items).k))>>
          ELSE <<>>)
         \o TypeLines(product_type, Tail(items))

\* variant: the blank line is left out after a product type without products
RECURSIVE FullSections_NoBlankWhenEmpty(_, _)
FullSections_NoBlankWhenEmpty(types, stock_dict) ==
    IF types = <<>> THEN <<>>
    ELSE <<Line("section", Head(types), None, None, "", <<>>)>>
         \o TypeLines(Head(types), stock_dict)
         \o (IF TypeLines(Head(types), stock_dict) = <<>> THEN <<>>
             ELSE <<PlainLine("blank")>>)
         \o FullSections_NoBlankWhenEmpty(Tail(types), stock_dict)

RECURSIVE FullSections(_, _)
FullSections(types, stock_dict) ==
    IF types = <<>> THEN <<>>
    ELSE <<Line("section", Head(types), None, None, "", <<>>)>>
         \o TypeLines(Head(types), stock_dict)
         \o <<PlainLine("blank")>>
         \o FullSections(Tail(types), stock_dict)

build_full_message(stock_dict, mode) ==
    <<Line("full_title", mode, None, None, "", <<>>), PlainLine("blank")>>
    \o FullSections(product_types, stock_dict)
    \o <<PlainLine("time")>>

\* old < new raises TypeError when one of them is None
RECURSIVE ChangeLines(_)
ChangeLines(items) ==
    IF items = <<>> THEN <<>>
    ELSE LET c == Head(items)
         IN  <<Line("change", c.k, c.old, c.new,
                    IF c.old.v < c.new.v THEN "up" ELSE "down", <<>>)>>
             \o ChangeLines(Tail(items))

\* sorted(changes.items()): the keys are distinct, so the order is that of the keys
RECURSIVE ItemsInOrder(_, _)
ItemsInOrder(keys, chg) ==
    IF keys = <<>> THEN <<>>
    ELSE <<chg[CHOOSE i \in 1..Len(chg) : chg[i].k = Head(keys)]>>
         \o ItemsInOrder(Tail(keys), chg)

\* variant: the items are taken in the order of the dict
SortedItems_InsertionOrder(chg) == chg

SortedItems(chg) == ItemsInOrder(SortedNames(Keys(chg)), chg)

\* variant: None is compared as the count 0 and the text is built
build_change_message_AbsentAsZero(chg, mode) ==
    [raised |-> FALSE,
     text |-> <<Line("change_title", mode, None, None, "", <<>>), PlainLine("blank")>>
              \o ChangeLines(SortedItems(chg)) \o <<PlainLine("time")>>]

\* build_change_message(changes, mode): [raised, text]
build_change_message(chg, mode) ==
    IF \E i \in 1..Len(chg) : chg[i].old.isNone \/ chg[i].new.isNone
    THEN [raised |-> TRUE, text |-> <<>>]
    ELSE [raised |-> FALSE,
          text |-> <<Line("change_title", mode, None, None, "", <<>>),
                     PlainLine("blank")>>
                   \o ChangeLines(SortedItems(chg)) \o <<PlainLine("time")>>]

FetchErrorMsg == <<PlainLine("fetch_failed")>>
NothingParsedMsg == <<PlainLine("nothing_parsed")>>
\* "\n\n(first collection)" after the full text
FirstRunMark == <<PlainLine("blank"), PlainLine("first_run")>>

----------------------------------------------------------------------------
(* The run.  Each action is one step of main(); pc names the next step.    *)

InitFiles == {NoFile, TruncatedFile}

\* the variables of the run before the first run
InitRun ==
    /\ file \in InitFiles
    /\ pc = "idle"
    /\ onlyOnChange = FALSE
    /\ nUrls = 0
    /\ urlIdx = 0
    /\ total = EmptyDict
    /\ current = EmptyDict
    /\ last = NoDict
    /\ changes = <<>>
    /\ msg = <<>>
    /\ sent = <<>>
    /\ outcome = "none"
    /\ error = ""
    /\ saves = 0
    /\ fileAtStart = file
    /\ fileAtInit = file
    /\ lastGood = NoDict
    /\ lost = NoDict

Init ==
    /\ InitRun
    /\ call = [fn |-> "main"]
    /\ ret = <<>>

\* the process starts: the configuration is read and main() is entered
StartRun(ooc, n) ==
    /\ pc \in {"idle", "done"}
    /\ pc' = "fetch_stock"
    /\ onlyOnChange' = ooc
    /\ nUrls' = n
    /\ urlIdx' = 0
    /\ total' = EmptyDict
    /\ current' = EmptyDict
    /\ last' = NoDict
    /\ changes' = <<>>
    /\ msg' = <<>>
    /\ sent' = <<>>
    /\ outcome' = "running"
    /\ error' = ""
    /\ saves' = 0
    /\ fileAtStart' = file
    /\ UNCHANGED <<file, fileAtInit, lastGood>>
    /\ UNCHANGED <<call, ret>>

\* fetch_stock: the next url is fetched and parsed, its entries are merged
FetchUrl(part) ==
    /\ pc = "fetch_stock"
    /\ urlIdx < nUrls
    /\ total' = Update(total, part)
    /\ urlIdx' = urlIdx + 1
    /\ UNCHANGED <<file, pc, onlyOnChange, nUrls, current, last, changes, msg, sent,
                   outcome, error, saves, fileAtStart, fileAtInit, lastGood>>
    /\ UNCHANGED <<lost, call, ret>>

\* variant: the entries merged before the failure are saved
FetchUrlRaises_SavesPartial ==
    /\ pc = "fetch_stock"
    /\ urlIdx < nUrls
    /\ msg' = FetchErrorMsg
    /\ file' = save_stock(total)
    /\ saves' = saves + 1
    /\ pc' = "send"
    /\ UNCHANGED <<onlyOnChange, nUrls, urlIdx, total, current, last, changes,
                   sent, outcome, error, fileAtStart, fileAtInit, lastGood>>
    /\ UNCHANGED <<lost, call, ret>>

\* variant: main has no try around fetch_stock()
FetchUrlRaises_Propagates ==
    /\ pc = "fetch_stock"
    /\ urlIdx < nUrls
    /\ pc' = "done"
    /\ outcome' = "raised"
    /\ error' = "HTTPError"
    /\ UNCHANGED <<file, onlyOnChange, nUrls, urlIdx, total, current, last, changes,
                   msg, sent, saves, fileAtStart, fileAtInit, lastGood>>
    /\ UNCHANGED <<lost, call, ret>>

\* fetch_stock: the next url raises; main catches it and reports it
FetchUrlRaises ==
    /\ pc = "fetch_stock"
    /\ urlIdx < nUrls
    /\ msg' = FetchErrorMsg
    /\ pc' = "send"
    /\ UNCHANGED <<file, onlyOnChange, nUrls, urlIdx, total, current, last, changes,
                   sent, outcome, error, saves, fileAtStart, fileAtInit, lastGood>>
    /\ UNCHANGED <<lost, call, ret>>

\* variant: main lacks the test "if not current"
FetchReturn_NoEmptyTest ==
    /\ pc = "fetch_stock"
    /\ urlIdx = nUrls
    /\ current' = total
    /\ pc' = "load_last_stock"
    /\ lastGood' = IF total = EmptyDict THEN lastGood ELSE SomeDict(total)
    /\ UNCHANGED <<file, onlyOnChange, nUrls, urlIdx, total, last, changes, msg, sent,
                   outcome, error, saves, fileAtStart, fileAtInit>>
    /\ UNCHANGED <<lost, call, ret>>

\* variant: an empty inventory is reported with the text of a failed fetch
FetchReturn_EmptyAsFetchError ==
    /\ pc = "fetch_stock"
    /\ urlIdx = nUrls
    /\ current' = total
    /\ IF total = EmptyDict
       THEN /\ msg' = FetchErrorMsg
            /\ pc' = "send"
            /\ UNCHANGED lastGood
       ELSE /\ pc' = "load_last_stock"
            /\ lastGood' = SomeDict(total)
            /\ UNCHANGED msg
    /\ UNCHANGED <<file, onlyOnChange, nUrls, urlIdx, total, last, changes, sent,
                   outcome, error, saves, fileAtStart, fileAtInit>>
    /\ UNCHANGED <<lost, call, ret>>

\* fetch_stock returns total; main tests it for emptiness
FetchReturn ==
    /\ pc = "fetch_stock"
    /\ urlIdx = nUrls
    /\ current' = total
    /\ IF total = EmptyDict
       THEN /\ msg' = NothingParsedMsg
            /\ pc' = "send"
            /\ UNCHANGED lastGood
       ELSE /\ pc' = "load_last_stock"
            /\ lastGood' = SomeDict(total)
            /\ UNCHANGED msg
    /\ UNCHANGED <<file, onlyOnChange, nUrls, urlIdx, total, last, changes, sent,
                   outcome, error, saves, fileAtStart, fileAtInit>>
    /\ UNCHANGED <<lost, call, ret>>

\* last = load_last_stock()
LoadLast ==
    /\ pc = "load_last_stock"
    /\ last' = load_last_stock(file)
    /\ pc' = IF last'.isNone THEN "first_run" ELSE "diff_stock"
    /\ UNCHANGED <<file, onlyOnChange, nUrls, urlIdx, total, current, changes, msg,
                   sent, outcome, error, saves, fileAtStart, fileAtInit, lastGood>>
    /\ UNCHANGED <<lost, call, ret>>

\* variant: the first run honours ONLY_ON_CHANGE and stays silent
FirstRun_SilentWhenOnlyOnChange ==
    /\ pc = "first_run"
    /\ file' = save_stock(current)
    /\ saves' = saves + 1
    /\ IF onlyOnChange
       THEN /\ pc' = "done"
            /\ outcome' = "returned"
            /\ UNCHANGED msg
       ELSE /\ msg' = build_full_message(current, MODE) \o FirstRunMark
            /\ pc' = "send"
            /\ UNCHANGED outcome
    /\ UNCHANGED <<onlyOnChange, nUrls, urlIdx, total, current, last, changes, sent,
                   error, fileAtStart, fileAtInit, lastGood>>
    /\ UNCHANGED <<lost, call, ret>>

\* the first run: save, then build the full text with the mark
FirstRun ==
    /\ pc = "first_run"
    /\ file' = save_stock(current)
    /\ saves' = saves + 1
    /\ msg' = build_full_message(current, MODE) \o FirstRunMark
    /\ pc' = "send"
    /\ UNCHANGED <<onlyOnChange, nUrls, urlIdx, total, current, last, changes, sent,
                   outcome, error, fileAtStart, fileAtInit, lastGood>>
    /\ UNCHANGED <<lost, call, ret>>

\* variant: the snapshot is not saved before the message is chosen and sent
DiffAndSave_NoSave ==
    /\ pc = "diff_stock"
    /\ changes' = diff_stock(last.d, current)
    /\ pc' = "decide"
    /\ UNCHANGED <<file, onlyOnChange, nUrls, urlIdx, total, current, last, msg, sent,
                   outcome, error, saves, fileAtStart, fileAtInit, lastGood>>
    /\ UNCHANGED <<lost, call, ret>>

\* changes = diff_stock(last, current); save_stock(current)
DiffAndSave ==
    /\ pc = "diff_stock"
    /\ changes' = diff_stock(last.d, current)
    /\ file' = save_stock(current)
    /\ saves' = saves + 1
    /\ pc' = "decide"
    /\ UNCHANGED <<onlyOnChange, nUrls, urlIdx, total, current, last, msg, sent,
                   outcome, error, fileAtStart, fileAtInit, lastGood>>
    /\ UNCHANGED <<lost, call, ret>>

\* main returns without a message
Return ==
    /\ pc' = "done"
    /\ outcome' = "returned"
    /\ UNCHANGED <<msg, error>>

\* an exception leaves main
Raise(e) ==
    /\ pc' = "done"
    /\ outcome' = "raised"
    /\ error' = e

\* variant: without changes the full text is sent whatever ONLY_ON_CHANGE says
Decide_FullWhenUnchanged ==
    /\ pc = "decide"
    /\ IF changes = <<>> \/ ~onlyOnChange
       THEN /\ msg' = build_full_message(current, MODE)
            /\ pc' = "send"
            /\ UNCHANGED <<outcome, error>>
       ELSE LET r == build_change_message(changes, MODE)
            IN  IF r.raised
                THEN Raise("TypeError") /\ UNCHANGED msg
                ELSE /\ msg' = r.text
                     /\ pc' = "send"
                     /\ UNCHANGED <<outcome, error>>
    /\ UNCHANGED <<file, onlyOnChange, nUrls, urlIdx, total, current, last, changes,
                   sent, saves, fileAtStart, fileAtInit, lastGood>>
    /\ UNCHANGED <<lost, call, ret>>

\* variant: with changes the change text is built whatever ONLY_ON_CHANGE says
Decide_ChangeTextInFullMode ==
    /\ pc = "decide"
    /\ IF changes = <<>>
       THEN IF onlyOnChange
            THEN Return
            ELSE /\ msg' = build_full_message(current, MODE)
                 /\ pc' = "send"
                 /\ UNCHANGED <<outcome, error>>
       ELSE LET r == build_change_message(changes, MODE)
            IN  IF r.raised
                THEN Raise("TypeError") /\ UNCHANGED msg
                ELSE /\ msg' = r.text
                     /\ pc' = "send"
                     /\ UNCHANGED <<outcome, error>>
    /\ UNCHANGED <<file, onlyOnChange, nUrls, urlIdx, total, current, last, changes,
                   sent, saves, fileAtStart, fileAtInit, lastGood>>
    /\ UNCHANGED <<lost, call, ret>>

\* the branches after the save: which text, if any, is to be sent
Decide ==
    /\ pc = "decide"
    /\ IF changes = <<>>
       THEN IF onlyOnChange
            THEN Return
            ELSE /\ msg' = build_full_message(current, MODE)
                 /\ pc' = "send"
                 /\ UNCHANGED <<outcome, error>>
       ELSE IF onlyOnChange
            THEN LET r == build_change_message(changes, MODE)
                 IN  IF r.raised
                     THEN Raise("TypeError") /\ UNCHANGED msg
                     ELSE /\ msg' = r.text
                          /\ pc' = "send"
                          /\ UNCHANGED <<outcome, error>>
            ELSE /\ msg' = build_full_message(current, MODE)
                 /\ pc' = "send"
                 /\ UNCHANGED <<outcome, error>>
    /\ UNCHANGED <<file, onlyOnChange, nUrls, urlIdx, total, current, last, changes,
                   sent, saves, fileAtStart, fileAtInit, lastGood>>
    /\ UNCHANGED <<lost, call, ret>>

\* variant: a failed post is caught and main returns
Send_SwallowsFailure(ok) ==
    /\ pc = "send"
    /\ sent' = Append(sent, [text |-> msg, ok |-> ok])
    /\ pc' = "done"
    /\ outcome' = "returned"
    /\ error' = ""
    /\ UNCHANGED <<file, onlyOnChange, nUrls, urlIdx, total, current, last, changes,
                   msg, saves, fileAtStart, fileAtInit, lastGood>>
    /\ UNCHANGED <<lost, call, ret>>

\* send_tg_message(msg): the post succeeds, or it raises and nothing catches it
Send(ok) ==
    /\ pc = "send"
    /\ sent' = Append(sent, [text |-> msg, ok |-> ok])
    /\ pc' = "done"
    /\ outcome' = IF ok THEN "returned" ELSE "raised"
    /\ error' = IF ok THEN "" ELSE "HTTPError"
    /\ UNCHANGED <<file, onlyOnChange, nUrls, urlIdx, total, current, last, changes,
                   msg, saves, fileAtStart, fileAtInit, lastGood>>
    /\ UNCHANGED <<lost, call, ret>>

Next ==
    \/ \E ooc \in BOOLEAN, n \in 0..MaxUrls : StartRun(ooc, n) /\ UNCHANGED lost
    \/ \E part \in Dicts : FetchUrl(part)
    \/ FetchUrlRaises
    \/ FetchReturn
    \/ LoadLast
    \/ FirstRun
    \/ DiffAndSave
    \/ Decide
    \/ \E ok \in BOOLEAN : Send(ok)

Spec == Init /\ [][Next]_vars

----------------------------------------------------------------------------
(* What a state tells about the run it belongs to *)

\* the snapshot the run found: PriorLoaded when the file was there and parsable
PriorLoaded == fileAtStart.exists /\ json_load(fileAtStart.text).ok
Prior == json_load(fileAtStart.text).d

\* fetch_stock raised: it stopped before the last url
FetchFailed == pc \notin {"idle", "fetch_stock"} /\ urlIdx < nUrls
\* fetch_stock returned a dict without entries
FetchedEmpty == pc \notin {"idle", "fetch_stock"} /\ urlIdx = nUrls /\ current = EmptyDict
\* fetch_stock returned a dict with entries
FetchedSome == current # EmptyDict

\* the names whose value differs between two snapshots
ChangedNames(old, new) == {k \in Keys(old) \cup Keys(new) : Get(old, k) # Get(new, k)}

\* the names on the change lines of a text
ChangeLineNames(text) == {text[i].name : i \in {j \in 1..Len(text) : text[j].t = "change"}}

FirstRunText == build_full_message(current, MODE) \o FirstRunMark

----------------------------------------------------------------------------
(* C1: the snapshot file is written only by runs that fetched at least one *)
(* entry, it then equals that run's inventory, between runs it equals the  *)
(* inventory of the latest such run (or is what it was before the first    *)
(* run), and it never holds an empty mapping.                              *)
C1_SnapshotIsLatestFetched ==
    /\ saves > 0 => (FetchedSome /\ file = save_stock(current))
    /\ saves = 0 => file = fileAtStart
    /\ (pc = "done" /\ FetchedSome) => (saves = 1 /\ file = save_stock(current))
    /\ pc \in {"idle", "done"} =>
           file = IF lastGood.isNone THEN fileAtInit ELSE save_stock(lastGood.d)
    /\ file # save_stock(EmptyDict)

\* a run whose fetch failed ends after an earlier run saved an inventory
C1_Witness ==
    /\ pc = "done"
    /\ FetchFailed
    /\ ~lastGood.isNone
    /\ file = save_stock(lastGood.d)

(* C2: once a prior snapshot is loaded and diffed, the current inventory   *)
(* is in the file before the message is chosen or any send is attempted,   *)
(* and it stays there to the end of the run whatever the outcome.          *)
C2_SavedBeforeNotify ==
    (~last.isNone /\ pc \in {"decide", "send", "done"}) =>
        (saves = 1 /\ file = save_stock(current))

\* the send of a run with changes failed; the file holds the new inventory
C2_Witness ==
    /\ pc = "done"
    /\ ~last.isNone
    /\ changes # <<>>
    /\ Len(sent) = 1
    /\ ~sent[1].ok
    /\ file = save_stock(current)
    /\ file # fileAtStart

(* C3: with entries fetched and no usable prior snapshot, the run saves    *)
(* the inventory and sends one message, the full text with the first-run   *)
(* mark, whatever ONLY_ON_CHANGE is; it never reaches the diff.            *)
C3_FirstRun ==
    (~PriorLoaded /\ FetchedSome /\ pc # "load_last_stock") =>
        /\ pc \in {"first_run", "send", "done"}
        /\ changes = <<>>
        /\ pc \in {"send", "done"} =>
               (saves = 1 /\ file = save_stock(current) /\ msg = FirstRunText)
        /\ pc = "done" => (Len(sent) = 1 /\ sent[1].text = FirstRunText)

\* a change-only run over an unparsable file has sent the first-run text
C3_Witness ==
    /\ pc = "done"
    /\ fileAtStart = TruncatedFile
    /\ onlyOnChange
    /\ FetchedSome
    /\ Len(sent) = 1
    /\ sent[1].ok
    /\ sent[1].text = FirstRunText

(* C4, as stated: a change-only run whose diff is not empty sends exactly  *)
(* one message, the change text listing the changed names, and the file    *)
(* then equals the current inventory.                                      *)
C4_ChangeReportSent ==
    (pc = "done" /\ PriorLoaded /\ FetchedSome /\ onlyOnChange
       /\ ChangedNames(Prior, current) # {}) =>
        /\ Len(sent) = 1
        /\ sent[1].text[1].t = "change_title"
        /\ ChangeLineNames(sent[1].text) = ChangedNames(Prior, current)
        /\ file = save_stock(current)

(* C5: a change-only run that loaded a snapshot equal to the current       *)
(* inventory sends nothing, returns, and leaves the inventory in the file. *)
C5_SilentWhenUnchanged ==
    (pc = "done" /\ PriorLoaded /\ FetchedSome /\ onlyOnChange
       /\ DictEq(Prior, current)) =>
        /\ sent = <<>>
        /\ outcome = "returned"
        /\ file = save_stock(current)

C5_Witness ==
    /\ pc = "done"
    /\ PriorLoaded
    /\ FetchedSome
    /\ onlyOnChange
    /\ DictEq(Prior, current)
    /\ sent = <<>>

(* C6: with ONLY_ON_CHANGE off, a run that loaded a snapshot and fetched   *)
(* entries sends exactly one message, the full text of the current         *)
(* inventory, with or without changes; it has no change line.              *)
C6_FullReportWhenNotChangeOnly ==
    (PriorLoaded /\ FetchedSome /\ ~onlyOnChange) =>
        /\ pc = "send" => msg = build_full_message(current, MODE)
        /\ pc = "done" =>
               /\ Len(sent) = 1
               /\ sent[1].text = build_full_message(current, MODE)
               /\ sent[1].text[1].t = "full_title"
               /\ ChangeLineNames(sent[1].text) = {}

\* a product of the prior snapshot is gone and the full text was sent
C6_Witness ==
    /\ pc = "done"
    /\ PriorLoaded
    /\ FetchedSome
    /\ ~onlyOnChange
    /\ Keys(Prior) \ Keys(current) # {}
    /\ Len(sent) = 1
    /\ sent[1].text[1].t = "full_title"

(* C7: when the fetch of a url fails, whatever came before it, the file is *)
(* left as the run found it, nothing is loaded or diffed, and the one      *)
(* message of the run is the fetch-error text.                             *)
C7_FetchFailureLeavesSnapshot ==
    FetchFailed =>
        /\ pc \in {"send", "done"}
        /\ file = fileAtStart
        /\ saves = 0
        /\ current = EmptyDict
        /\ last.isNone
        /\ changes = <<>>
        /\ msg = FetchErrorMsg
        /\ pc = "done" => (Len(sent) = 1 /\ sent[1].text = FetchErrorMsg)

\* the second url failed after the first gave entries, over a saved snapshot
C7_Witness ==
    /\ pc = "done"
    /\ FetchFailed
    /\ urlIdx > 0
    /\ total # EmptyDict
    /\ PriorLoaded
    /\ ~DictEq(Prior, total)
    /\ Len(sent) = 1

(* C8: when every fetch succeeds and no entry was parsed, the one message  *)
(* of the run is the nothing-parsed text, which is not the fetch-error     *)
(* text, and the file is left as the run found it.                         *)
C8_EmptyInventoryLeavesSnapshot ==
    FetchedEmpty =>
        /\ pc \in {"send", "done"}
        /\ msg = NothingParsedMsg
        /\ msg # FetchErrorMsg
        /\ file = fileAtStart
        /\ saves = 0
        /\ last.isNone
        /\ pc = "done" => (Len(sent) = 1 /\ sent[1].text = NothingParsedMsg)

\* pages without entries were fetched over a saved snapshot
C8_Witness ==
    /\ pc = "done"
    /\ FetchedEmpty
    /\ nUrls > 0
    /\ PriorLoaded
    /\ file = fileAtStart
    /\ Len(sent) = 1

(* C9, as stated: every run ends by returning normally; no error leaves    *)
(* main.                                                                   *)
C9_AlwaysReturns == pc = "done" => (outcome = "returned" /\ error = "")

(* C9, amended: a run ends by raising exactly when its send failed or the  *)
(* change text could not be built; a failed fetch and an empty inventory   *)
(* are caught and reported by a send.                                      *)
C9_ReturnsUnlessSendOrBuildFails ==
    pc = "done" =>
        /\ outcome \in {"returned", "raised"}
        /\ outcome = "raised" <=>
               (error = "TypeError" \/ (Len(sent) = 1 /\ ~sent[1].ok))
        /\ error = "TypeError" => sent = <<>>
        /\ (FetchFailed \/ FetchedEmpty) => Len(sent) = 1

\* a failed fetch was reported and main returned
C9_Witness ==
    /\ pc = "done"
    /\ FetchFailed
    /\ Len(sent) = 1
    /\ sent[1].ok
    /\ outcome = "returned"

(* C10: a run calls send at most once; the run is over after the call, and *)
(* a failed call leaves main as an exception, on every path.               *)
C10_OneSendNoRetry ==
    /\ Len(sent) <= 1
    /\ sent # <<>> => pc = "done"
    /\ (sent # <<>> /\ ~sent[1].ok) => (outcome = "raised" /\ error = "HTTPError")
    /\ (sent # <<>> /\ sent[1].ok) => outcome = "returned"

\* the send of the nothing-parsed text failed
C10_Witness ==
    /\ pc = "done"
    /\ FetchedEmpty
    /\ Len(sent) = 1
    /\ ~sent[1].ok
    /\ outcome = "raised"

----------------------------------------------------------------------------
(* The functions of the module called on their own: `call' holds the name  *)
(* of the function and its arguments, `ret' the values returned so far.    *)

runVars == <<file, pc, onlyOnChange, nUrls, urlIdx, total, current, last, changes,
             msg, sent, outcome, error, saves, fileAtStart, fileAtInit, lastGood, lost>>

\* diff_stock(old, new) for every two snapshots
DiffCalls == {[fn |-> "diff_stock", old |-> a, new |-> b] : a \in Dicts, b \in Dicts}

\* changes = diff_stock(old, new)
CallDiffStock ==
    /\ call.fn = "diff_stock"
    /\ Len(ret) = 0
    /\ ret' = <<diff_stock(call.old, call.new)>>
    /\ UNCHANGED <<call, runVars>>

\* then diff_stock(new, old), the arguments exchanged
CallDiffStockSwapped ==
    /\ call.fn = "diff_stock"
    /\ Len(ret) = 1
    /\ ret' = Append(ret, diff_stock(call.new, call.old))
    /\ UNCHANGED <<call, runVars>>

\* the characters of the cookie strings, and the strings
CookieChars == {"a", "=", ";", " "}
CookieStrings == SeqsUpTo(CookieChars, MaxCookieLen)
CookieCalls == {[fn |-> "parse_cookies", s |-> s] : s \in CookieStrings}

\* cookies = parse_cookies(s)
CallParseCookies ==
    /\ call.fn = "parse_cookies"
    /\ Len(ret) = 0
    /\ ret' = <<parse_cookies(call.s)>>
    /\ UNCHANGED <<call, runVars>>

\* the items of a mapping written as "k=v" and joined by ";"
RECURSIVE RenderCookies(_)
RenderCookies(m) ==
    IF m = <<>> THEN <<>>
    ELSE Head(m).k \o <<"=">> \o Head(m).v
         \o (IF Tail(m) = <<>> THEN <<>> ELSE <<";">> \o RenderCookies(Tail(m)))

\* the orders in which n items can be written
Orders(n) == {o \in [1..n -> 1..n] : \A i, j \in 1..n : o[i] = o[j] => i = j}

\* then parse_cookies of the mapping returned, written in the order o
CallParseRendered(o) ==
    /\ call.fn = "parse_cookies"
    /\ Len(ret) = 1
    /\ ret' = Append(ret, parse_cookies(RenderCookies([i \in 1..Len(ret[1]) |-> ret[1][o[i]]])))
    /\ UNCHANGED <<call, runVars>>

(* The names of the full report: NameA has one product type, NameB none,  *)
(* NameC two.                                                              *)
NameC == <<"P", "Y", "M", "-", "P", "Y", "T">>
FullNames == {NameA, NameB, NameC}

\* every dict over the names N and Counts with n items
RECURSIVE DictsOver(_, _)
DictsOver(N, n) ==
    IF n = 0 THEN {<<>>}
    ELSE UNION {{Append(d, [k |-> k, v |-> v]) : k \in N \ Keys(d), v \in Counts} :
                  d \in DictsOver(N, n - 1)}

FullCalls ==
    {[fn |-> "build_full_message", d |-> d] :
        d \in UNION {DictsOver(FullNames, n) : n \in 0..Cardinality(FullNames)}}

\* msg = build_full_message(d, MODE)
CallBuildFullMessage ==
    /\ call.fn = "build_full_message"
    /\ Len(ret) = 0
    /\ ret' = <<build_full_message(call.d, MODE)>>
    /\ UNCHANGED <<call, runVars>>

(* The change records that diff_stock makes: old and new differ, and each  *)
(* is a count or None.                                                     *)
ChangePairs ==
    {pr \in ({None} \cup {IntVal(c) : c \in Counts}) \X ({None} \cup {IntVal(c) : c \in Counts}) :
        pr[1] # pr[2]}

RECURSIVE ChangesOver(_, _)
ChangesOver(N, n) ==
    IF n = 0 THEN {<<>>}
    ELSE UNION {{Append(d, [k |-> k, old |-> pr[1], new |-> pr[2]]) :
                    k \in N \ Keys(d), pr \in ChangePairs} :
                  d \in ChangesOver(N, n - 1)}

ChangeCalls ==
    {[fn |-> "build_change_message", changes |-> d] :
        d \in UNION {ChangesOver(FullNames, n) : n \in 0..Cardinality(FullNames)}}

\* msg = build_change_message(changes, MODE)
CallBuildChangeMessage ==
    /\ call.fn = "build_change_message"
    /\ Len(ret) = 0
    /\ ret' = <<build_change_message(call.changes, MODE)>>
    /\ UNCHANGED <<call, runVars>>

Calls == DiffCalls \cup CookieCalls \cup FullCalls \cup ChangeCalls

InitCalls ==
    /\ InitRun
    /\ file = NoFile
    /\ call \in Calls
    /\ ret = <<>>

NextCalls ==
    \/ CallDiffStock
    \/ CallDiffStockSwapped
    \/ CallParseCookies
    \/ CallBuildFullMessage
    \/ CallBuildChangeMessage
    \/ /\ call.fn = "parse_cookies" /\ Len(ret) = 1
       /\ \E o \in Orders(Len(ret[1])) : CallParseRendered(o)

SpecCalls == InitCalls /\ [][NextCalls]_vars

----------------------------------------------------------------------------
(* C11: diff_stock returns one item for each name of the two key sets      *)
(* whose old.get and new.get differ, and no other; the item holds the two  *)
(* values, None for a missing name, and None differs from every count, so  *)
(* a name of one snapshot only is reported whatever its count.             *)
C11_DiffIsChangedNames ==
    (call.fn = "diff_stock" /\ Len(ret) >= 1) =>
        LET r == ret[1]
        IN  /\ Keys(r) = ChangedNames(call.old, call.new)
            /\ Len(r) = Cardinality(Keys(r))
            /\ \A i \in 1..Len(r) :
                   /\ r[i].old = Get(call.old, r[i].k)
                   /\ r[i].new = Get(call.new, r[i].k)
            /\ \A c \in Counts : None # IntVal(c)
            /\ \A k \in Keys(call.old) \ Keys(call.new) : k \in Keys(r)
            /\ \A k \in Keys(call.new) \ Keys(call.old) : k \in Keys(r)

\* a name that only the new snapshot has, with the count 0, is reported
C11_Witness ==
    /\ call.fn = "diff_stock"
    /\ Len(ret) >= 1
    /\ \E i \in 1..Len(ret[1]) :
           /\ ret[1][i].k \notin Keys(call.old)
           /\ ret[1][i].old = None
           /\ ret[1][i].new = IntVal(0)

(* C12: diff_stock of a snapshot with itself is empty, and diff_stock(A,B) *)
(* and diff_stock(B,A) have the same keys with old and new exchanged.      *)
C12_DiffSelfEmptyAndSwapped ==
    (call.fn = "diff_stock" /\ Len(ret) = 2) =>
        /\ Keys(ret[1]) = Keys(ret[2])
        /\ Len(ret[1]) = Len(ret[2])
        /\ \A i \in 1..Len(ret[1]) : \E j \in 1..Len(ret[2]) :
               /\ ret[2][j].k = ret[1][i].k
               /\ ret[2][j].old = ret[1][i].new
               /\ ret[2][j].new = ret[1][i].old
        /\ DictEq(call.old, call.new) => (ret[1] = <<>> /\ ret[2] = <<>>)

\* two snapshots with different key sets, compared both ways
C12_Witness ==
    /\ call.fn = "diff_stock"
    /\ Len(ret) = 2
    /\ ret[1] # <<>>
    /\ Keys(call.old) \ Keys(call.new) # {}
    /\ Keys(call.new) # {}

----------------------------------------------------------------------------
(* fetch_stock over a given list of pages: call.pages[i] is what           *)
(* fetch_stock_from_url returns for the i-th url.                          *)

FetchCalls == {[fn |-> "fetch_stock", pages |-> ps] : ps \in SeqsUpTo(Dicts, MaxUrls)}

InitFetch ==
    /\ InitRun
    /\ file = NoFile
    /\ call \in FetchCalls
    /\ ret = <<>>

NextFetch ==
    \/ StartRun(FALSE, Len(call.pages)) /\ pc = "idle" /\ UNCHANGED lost
    \/ urlIdx < Len(call.pages) /\ FetchUrl(call.pages[urlIdx + 1])
    \/ FetchReturn

SpecFetch == InitFetch /\ [][NextFetch]_vars

\* the index of the last of the pages that has the name k
LastWith(pages, k) ==
    CHOOSE i \in 1..Len(pages) :
        /\ k \in Keys(pages[i])
        /\ \A j \in (i + 1)..Len(pages) : k \notin Keys(pages[j])

\* d has the names of all the pages, each with the count of the last page that has it
MergesPages(d, pages) ==
    /\ Keys(d) = UNION {Keys(pages[i]) : i \in 1..Len(pages)}
    /\ Len(d) = Cardinality(Keys(d))
    /\ \A k \in Keys(d) : Get(d, k) = Get(pages[LastWith(pages, k)], k)

(* C13: when all fetches succeed the inventory has the names of all pages, *)
(* each with the count of the last url in list order whose page has it;    *)
(* the running dict has this property after every url.                     *)
C13_LaterUrlWins ==
    /\ pc = "fetch_stock" => MergesPages(total, SubSeq(call.pages, 1, urlIdx))
    /\ pc \in {"load_last_stock", "send"} => MergesPages(current, call.pages)

\* two pages give different counts for a name; the inventory has the second
C13_Witness ==
    /\ pc = "load_last_stock"
    /\ Len(call.pages) = 2
    /\ \E k \in Keys(call.pages[1]) \cap Keys(call.pages[2]) :
           /\ Get(call.pages[1], k) # Get(call.pages[2], k)
           /\ Get(current, k) = Get(call.pages[2], k)
    /\ Keys(call.pages[1]) \ Keys(call.pages[2]) # {}

----------------------------------------------------------------------------
\* the run has fetched entries and called load_last_stock
AfterLoad == FetchedSome /\ pc # "load_last_stock"

(* C14: load_last_stock after save_stock(S) returns S, for every snapshot  *)
(* S, and never None.  So a run that starts over a file saved by an        *)
(* earlier run loads exactly the inventory saved there, and a run after    *)
(* any save does not take the first-run branch.                            *)
C14_LoadAfterSave ==
    /\ \A S \in Dicts : load_last_stock(save_stock(S)) = SomeDict(S)
    /\ saves > 0 => (file # fileAtInit /\ load_last_stock(file) = SomeDict(current))
    /\ AfterLoad =>
           /\ \A S \in Dicts : fileAtStart = save_stock(S) => last = SomeDict(S)
           /\ fileAtStart # fileAtInit =>
                  (~last.isNone /\ pc # "first_run" /\ fileAtStart = save_stock(last.d))

\* a run diffs against the two entries an earlier run saved
C14_Witness ==
    /\ pc = "decide"
    /\ fileAtStart # fileAtInit
    /\ Len(last.d) = 2
    /\ fileAtStart = save_stock(last.d)
    /\ ~DictEq(last.d, current)

----------------------------------------------------------------------------
\* the parts of a cookie string that parse_cookies reads: stripped, with a "="
CookieParts(str) ==
    LET parts == SplitOn(str, ";", <<>>)
    IN  [i \in {j \in 1..Len(parts) : HasChar(parts[j], "=")} |-> Strip(parts[i])]

\* the text of a part before its first "=", and the text after it
BeforeEq(part) == SubSeq(part, 1, IndexOf(part, "=") - 1)
AfterEq(part) == SubSeq(part, IndexOf(part, "=") + 1, Len(part))

Trimmed(str) == str = <<>> \/ (Head(str) # " " /\ str[Len(str)] # " ")

(* C15: parse_cookies returns a mapping for every string: the empty one    *)
(* for the empty string; parts that are empty or have no "=" add nothing;  *)
(* every other part gives the trimmed text before its first "=" as key and *)
(* the trimmed rest as value, the last part with a key deciding; and the   *)
(* mapping written back as "k=v" parts in any order parses to itself.      *)
C15_ParseCookies ==
    (call.fn = "parse_cookies" /\ Len(ret) >= 1) =>
        LET m == ret[1]
            parts == CookieParts(call.s)
        IN  /\ call.s = <<>> => m = EmptyDict
            /\ Len(m) = Cardinality(Keys(m))
            /\ Keys(m) = {Strip(BeforeEq(parts[i])) : i \in DOMAIN parts}
            /\ \A i \in DOMAIN parts :
                   (\A j \in DOMAIN parts :
                        j > i => Strip(BeforeEq(parts[j])) # Strip(BeforeEq(parts[i])))
                   => Get(m, Strip(BeforeEq(parts[i]))) = IntVal(Strip(AfterEq(parts[i])))
            /\ \A i \in 1..Len(m) :
                   /\ Trimmed(m[i].k) /\ Trimmed(m[i].v)
                   /\ ~HasChar(m[i].k, "=") /\ ~HasChar(m[i].k, ";")
                   /\ ~HasChar(m[i].v, ";")
            /\ Len(ret) = 2 => DictEq(ret[2], m)

\* a mapping of two cookies, written back in the other order, parses to itself
C15_Witness ==
    /\ call.fn = "parse_cookies"
    /\ Len(ret) = 2
    /\ Len(ret[1]) = 2
    /\ ret[2] # ret[1]
    /\ DictEq(ret[2], ret[1])

----------------------------------------------------------------------------
(* C16: when a product has appeared or disappeared, so that a change has   *)
(* None as old or new value, a change-only run raises TypeError while it   *)
(* builds the change text: after the snapshot was saved, before any send,  *)
(* and the exception leaves main.                                          *)
C16_ChangeTextRaisesOnAbsent ==
    /\ (pc = "done" /\ PriorLoaded /\ FetchedSome /\ onlyOnChange
          /\ Keys(Prior) # Keys(current)) =>
           /\ \E i \in 1..Len(changes) : changes[i].old.isNone \/ changes[i].new.isNone
           /\ outcome = "raised"
           /\ error = "TypeError"
           /\ sent = <<>>
           /\ saves = 1
           /\ file = save_stock(current)
    /\ (onlyOnChange /\ pc \in {"send", "done"}
          /\ \E i \in 1..Len(changes) : changes[i].old.isNone \/ changes[i].new.isNone) =>
           (pc = "done" /\ error = "TypeError" /\ sent = <<>>)

\* one count changed and one product is gone: the run raised after the save
C16_Witness ==
    /\ pc = "done"
    /\ onlyOnChange
    /\ error = "TypeError"
    /\ Len(changes) = 2
    /\ ~changes[1].old.isNone /\ ~changes[1].new.isNone
    /\ changes[2].new.isNone
    /\ file = save_stock(current)
    /\ file # fileAtStart

----------------------------------------------------------------------------
(* The runs with the history `lost': when a run starts, the run before it  *)
(* is looked at; if it found changes and ended with an exception (the send *)
(* failed or the change text could not be built), and no earlier run did,  *)
(* its inventory is kept in `lost'.  TARGET_URL names one url here: the    *)
(* page of one url already ranges over every inventory.                    *)

\* the run that has just ended found changes and raised
RunLostChange == pc = "done" /\ outcome = "raised" /\ changes # <<>>

RecordLost == lost' = IF lost.isNone /\ RunLostChange THEN SomeDict(current) ELSE lost

NextLost ==
    \/ \E ooc \in BOOLEAN : StartRun(ooc, 1) /\ RecordLost
    \/ \E part \in Dicts : FetchUrl(part)
    \/ FetchUrlRaises
    \/ FetchReturn
    \/ LoadLast
    \/ FirstRun
    \/ DiffAndSave
    \/ Decide
    \/ \E ok \in BOOLEAN : Send(ok)

SpecLost == Init /\ [][NextLost]_vars

\* a later run has fetched the inventory of the lost change and diffed it
RefetchedLost ==
    /\ ~lost.isNone
    /\ ~last.isNone
    /\ FetchedSome
    /\ DictEq(current, lost.d)
    /\ pc \in {"decide", "send", "done"}

----------------------------------------------------------------------------
\* the index of the n-th section line of a text
NthSection(text, n) ==
    CHOOSE i \in 1..Len(text) :
        /\ text[i].t = "section"
        /\ Cardinality({j \in 1..(i - 1) : text[j].t = "section"}) = n - 1

\* the items of a dict whose name has the product type, in the order of the dict
ItemsOfType(d, product_type) ==
    LET Has(item) == Contains(item.k, product_type)
    IN  SelectSeq(d, Has)

\* the product types a name has
TypesOf(name) == {n \in 1..Len(product_types) : Contains(name, product_types[n])}

(* C18: the full text has, for each product type in the order of the list, *)
(* a section line, one line for each product of the inventory whose name   *)
(* contains the type, and a blank line, also when no product matched.  So  *)
(* a product has as many lines as it has types, and none if it has none.   *)
C18_FullReportSections ==
    (call.fn = "build_full_message" /\ Len(ret) = 1) =>
        LET text == ret[1]
        IN  /\ Cardinality({i \in 1..Len(text) : text[i].t = "section"})
                   = Len(product_types)
            /\ \A n \in 1..Len(product_types) :
                   LET p == NthSection(text, n)
                       items == ItemsOfType(call.d, product_types[n])
                   IN  /\ text[p].name = product_types[n]
                       /\ \A i \in 1..Len(items) :
                              /\ text[p + i].t = "item"
                              /\ text[p + i].name = items[i].k
                              /\ text[p + i].new = IntVal(items[i].v)
                       /\ text[p + Len(items) + 1].t = "blank"
                       /\ n < Len(product_types) =>
                              NthSection(text, n + 1) = p + Len(items) + 2
            /\ \A k \in Keys(call.d) :
                   Cardinality({i \in 1..Len(text) : text[i].t = "item" /\ text[i].name = k})
                       = Cardinality(TypesOf(k))

\* a product with two types has two lines, one with no type has none
C18_Witness ==
    /\ call.fn = "build_full_message"
    /\ Len(ret) = 1
    /\ Keys(call.d) = FullNames
    /\ Cardinality(TypesOf(NameC)) = 2
    /\ Cardinality({i \in 1..Len(ret[1]) : ret[1][i].name = NameC}) = 2
    /\ TypesOf(NameB) = {}
    /\ \A i \in 1..Len(ret[1]) : ret[1][i].name # NameB

----------------------------------------------------------------------------
\* every old and new value of a change record is a count
AllCounts(chg) == \A i \in 1..Len(chg) : ~chg[i].old.isNone /\ ~chg[i].new.isNone

(* C19: when every old and new value of the change record is a count, the  *)
(* change text is built and has, between its two head lines and the time   *)
(* line, exactly one line for each changed product, in ascending order of  *)
(* the names, with the old and the new count of the product, the arrow up  *)
(* exactly when old < new and the arrow down exactly when old > new.       *)
C19_ChangeReportLines ==
    (call.fn = "build_change_message" /\ Len(ret) = 1 /\ AllCounts(call.changes)) =>
        LET chg == call.changes
            text == ret[1].text
        IN  /\ ~ret[1].raised
            /\ Len(text) = Len(chg) + 3
            /\ {i \in 1..Len(text) : text[i].t = "change"} = 3..(Len(chg) + 2)
            /\ {text[i].name : i \in 3..(Len(chg) + 2)} = Keys(chg)
            /\ \A i, j \in 3..(Len(chg) + 2) :
                   i < j => StrLess(text[i].name, text[j].name)
            /\ \A i \in 3..(Len(chg) + 2) : \A c \in 1..Len(chg) :
                   chg[c].k = text[i].name =>
                       /\ text[i].old = chg[c].old
                       /\ text[i].new = chg[c].new
                       /\ text[i].arrow = "up" <=> chg[c].old.v < chg[c].new.v
                       /\ text[i].arrow = "down" <=> chg[c].old.v > chg[c].new.v

\* three changed products given out of name order, one up and one down
C19_Witness ==
    /\ call.fn = "build_change_message"
    /\ Len(ret) = 1
    /\ AllCounts(call.changes)
    /\ Len(call.changes) = 3
    /\ StrLess(call.changes[2].k, call.changes[1].k)
    /\ \E i, j \in 3..5 : ret[1].text[i].arrow = "up" /\ ret[1].text[j].arrow = "down"

----------------------------------------------------------------------------
(* fetch_stock_from_url on a given page: the loop over the cards the page  *)
(* has.  A card is what card.find gives for its h4 and for its p of class  *)
(* card-text, each a tag with its text or no tag.                          *)

MaxCards == 2
MaxStockLen == 3

NoTag == [found |-> FALSE, text |-> <<>>]
Tag(text) == [found |-> TRUE, text |-> text]

(* The characters of a stock text: the decimal digits 0 and 1, ":" for a   *)
(* character that is no digit, and "^2" for the superscript two, U+00B2.   *)
StockChars == {"0", "1", ":", "^2"}

\* ch.isdigit(): true of the superscript two as well
isdigit(ch) == ch \in {"0", "1", "^2"}

\* the characters int() reads as decimal digits
isdecimal(ch) == ch \in {"0", "1"}

\* int(digits) of a str of decimal digits
RECURSIVE DecValue(_)
DecValue(digits) ==
    IF digits = <<>> THEN 0
    ELSE DecValue(SubSeq(digits, 1, Len(digits) - 1)) * 10
         + (IF digits[Len(digits)] = "1" THEN 1 ELSE 0)

\* the loop over the cards, from the result so far: [raised, result]
RECURSIVE parse_cards(_, _)
parse_cards(cards, result) ==
    IF cards = <<>> THEN [raised |-> FALSE, result |-> result]
    ELSE LET card == Head(cards)
             digits == SelectSeq(card.p.text, isdigit)
         IN  IF ~card.h4.found THEN parse_cards(Tail(cards), result)
             ELSE IF ~card.p.found THEN parse_cards(Tail(cards), result)
             ELSE IF digits = <<>> THEN parse_cards(Tail(cards), result)
             ELSE IF \E i \in 1..Len(digits) : ~isdecimal(digits[i])
                  THEN [raised |-> TRUE, result |-> result]
             ELSE parse_cards(Tail(cards),
                              SetItem(result, card.h4.text, DecValue(digits)))

Cards ==
    {[h4 |-> h, p |-> p] :
        h \in {NoTag} \cup {Tag(n) : n \in Names},
        p \in {NoTag} \cup {Tag(t) : t \in SeqsUpTo(StockChars, MaxStockLen)}}

ExtractCalls == {[fn |-> "fetch_stock_from_url", cards |-> cs] : cs \in SeqsUpTo(Cards, MaxCards)}

InitExtract ==
    /\ InitRun
    /\ file = NoFile
    /\ call \in ExtractCalls
    /\ ret = <<>>

\* fetch_stock_from_url(url), the page of url having the cards call.cards
CallFetchStockFromUrl ==
    /\ call.fn = "fetch_stock_from_url"
    /\ Len(ret) = 0
    /\ ret' = <<parse_cards(call.cards, EmptyDict)>>
    /\ UNCHANGED <<call, runVars>>

NextExtract == CallFetchStockFromUrl

SpecExtract == InitExtract /\ [][NextExtract]_vars

\* the digit characters of a text, in order
DigitsOf(text) ==
    LET IsDigit(ch) == ch \in {"0", "1"}
    IN  SelectSeq(text, IsDigit)

\* the card is skipped: no title, no stock description, or no digit in the stock text
Skipped(card) == ~card.h4.found \/ ~card.p.found \/ DigitsOf(card.p.text) = <<>>

\* the last card of the page that is not skipped and has the name k
LastCardOf(cards, k) ==
    CHOOSE i \in 1..Len(cards) :
        /\ ~Skipped(cards[i]) /\ cards[i].h4.text = k
        /\ \A j \in (i + 1)..Len(cards) : Skipped(cards[j]) \/ cards[j].h4.text # k

\* d is the inventory of the page: its names are those of the cards not
\* skipped, each once, with the number its last such card's digits make
IsInventoryOf(d, cards) ==
    /\ Keys(d) = {cards[i].h4.text : i \in {j \in 1..Len(cards) : ~Skipped(cards[j])}}
    /\ Len(d) = Cardinality(Keys(d))
    /\ \A k \in Keys(d) :
           Get(d, k) = IntVal(DecValue(DigitsOf(cards[LastCardOf(cards, k)].p.text)))

(* C20: for every page the extractor returns, without an error, one entry  *)
(* for each name of a card that has a title, a stock description and a     *)
(* digit in its stock text; the count is the number that the digits of the *)
(* stock text make when joined in order, and of several cards of one name  *)
(* the last one gives the count.                                           *)
C20_ExtractsEveryPage ==
    (call.fn = "fetch_stock_from_url" /\ Len(ret) = 1) =>
        /\ ~ret[1].raised
        /\ IsInventoryOf(ret[1].result, call.cards)

====
